---------------------------- MODULE Spec2Model ----------------------------
(***************************************************************************)
(* Model of the kalkulator crate (src/src/lib.rs): the infix-to-postfix    *)
(* converter, the postfix evaluator, the shared factorial cache behind a   *)
(* mutex, and the Expression facade, with several threads each owning one *)
(* Expression and sharing FACTORIAL_CACHE.                                 *)
(*                                                                         *)
(* Text is a sequence of one-character strings.  An i64 (and the usize of  *)
(* factorial's argument) is a sign and a magnitude written as decimal      *)
(* digits, least significant first, so that the 64-bit range is exact.     *)
(***************************************************************************)
EXTENDS Integers, Sequences, FiniteSets, TLC

\* ------------------------------------------------------------------------
\* Machine integers
\* ------------------------------------------------------------------------

\* A magnitude is a sequence of limbs in 0..9999, least significant first,
\* without leading (last) zero limbs.
RECURSIVE MagNorm(_)
MagNorm(m) ==
    IF m = <<>> THEN <<>>
    ELSE IF m[Len(m)] = 0 THEN MagNorm(SubSeq(m, 1, Len(m) - 1))
    ELSE m

\* The magnitude of a natural number of the model checker.
RECURSIVE NatToMag(_)
NatToMag(k) ==
    IF k = 0 THEN <<>> ELSE <<k % 10000>> \o NatToMag(k \div 10000)

\* -1, 0 or 1 as a < b, a = b, a > b; a and b normalised.
RECURSIVE MagCmpFrom(_, _, _)
MagCmpFrom(a, b, i) ==
    IF i = 0 THEN 0
    ELSE IF a[i] < b[i] THEN -1
    ELSE IF a[i] > b[i] THEN 1
    ELSE MagCmpFrom(a, b, i - 1)

MagCmp(a, b) ==
    IF Len(a) < Len(b) THEN -1
    ELSE IF Len(a) > Len(b) THEN 1
    ELSE MagCmpFrom(a, b, Len(a))

\* The lowest limb (0 of an empty magnitude) and the limbs above it.
MagLow(a) == IF a = <<>> THEN 0 ELSE Head(a)
MagHigh(a) == IF a = <<>> THEN <<>> ELSE Tail(a)

\* a + b + c, c the carry in; s is the sum of the lowest limbs and c.
RECURSIVE MagAddC(_, _, _)
MagAddS(a, b, s) ==
    <<s % 10000>> \o MagAddC(MagHigh(a), MagHigh(b), s \div 10000)
MagAddC(a, b, c) ==
    IF a = <<>> /\ b = <<>> THEN NatToMag(c)
    ELSE MagAddS(a, b, MagLow(a) + MagLow(b) + c)

MagAdd(a, b) == MagAddC(a, b, 0)

\* a - b - w for a >= b + w, w the borrow in; d is the lowest limb's difference.
RECURSIVE MagSubB(_, _, _)
MagSubD(a, b, d) ==
    <<IF d < 0 THEN d + 10000 ELSE d>>
    \o MagSubB(MagHigh(a), MagHigh(b), IF d < 0 THEN 1 ELSE 0)
MagSubB(a, b, w) ==
    IF a = <<>> THEN <<>> ELSE MagSubD(a, b, Head(a) - MagLow(b) - w)

MagSub(a, b) == MagNorm(MagSubB(a, b, 0))

\* a * d + c for a natural d <= 10000.
RECURSIVE MagMulSmallC(_, _, _)
MagMulSmallS(a, d, s) ==
    <<s % 10000>> \o MagMulSmallC(Tail(a), d, s \div 10000)
MagMulSmallC(a, d, c) ==
    IF a = <<>> THEN NatToMag(c) ELSE MagMulSmallS(a, d, Head(a) * d + c)

MagMulSmall(a, d) == MagNorm(MagMulSmallC(a, d, 0))

\* a * b, from b's limb i down: acc is a times the limbs of b above i.
RECURSIVE MagMulFrom(_, _, _, _)
MagMulFrom(a, b, i, acc) ==
    IF i = 0 \/ a = <<>> THEN MagNorm(acc)
    ELSE MagMulFrom(a, b, i - 1,
                    MagAdd(MagNorm(<<0>> \o acc), MagMulSmall(a, b[i])))

MagMul(a, b) == IF a = <<>> THEN <<>> ELSE MagMulFrom(a, b, Len(b), <<>>)

\* The largest q in lo..hi with q * b <= r, given lo * b <= r.
RECURSIVE MagQuotLimb(_, _, _, _)
MagQuotLimb(r, b, lo, hi) ==
    IF lo >= hi THEN lo
    ELSE IF MagCmp(MagMulSmall(b, (lo + hi + 1) \div 2), r) <= 0
         THEN MagQuotLimb(r, b, (lo + hi + 1) \div 2, hi)
         ELSE MagQuotLimb(r, b, lo, (lo + hi + 1) \div 2 - 1)

\* One step of long division by b # 0: r1 is the remainder with the next
\* limb brought down, d the quotient limb.
MagDivPut(quo, r1, b, d) ==
    [quo |-> <<d>> \o quo, rem |-> MagSub(r1, MagMulSmall(b, d))]
MagDivLimb(quo, r1, b) == MagDivPut(quo, r1, b, MagQuotLimb(r1, b, 0, 9999))
MagDivStep(acc, x, b) == MagDivLimb(acc.quo, MagNorm(<<x>> \o acc.rem), b)

\* Long division of a by b # 0: acc holds the quotient limbs found so far
\* (of a's highest limbs) and the remainder under them.
RECURSIVE MagDivFrom(_, _, _)
MagDivFrom(a, b, acc) ==
    IF Len(acc.quo) = Len(a) THEN acc
    ELSE MagDivFrom(a, b, MagDivStep(acc, a[Len(a) - Len(acc.quo)], b))

MagDivNorm(x) == [quo |-> MagNorm(x.quo), rem |-> x.rem]
MagDivMod(a, b) == MagDivNorm(MagDivFrom(a, b, [quo |-> <<>>, rem |-> <<>>]))

\* A signed integer; zero is never negative.
MkInt(neg, mag) == [neg |-> neg /\ mag # <<>>, mag |-> mag]

\* The signed integer of an integer of the model checker.
Z(k) == IF k < 0 THEN MkInt(TRUE, NatToMag(-k)) ELSE MkInt(FALSE, NatToMag(k))

IntNeg(a) == MkInt(~a.neg, a.mag)

IntAdd(a, b) ==
    IF a.neg = b.neg THEN MkInt(a.neg, MagAdd(a.mag, b.mag))
    ELSE IF MagCmp(a.mag, b.mag) >= 0 THEN MkInt(a.neg, MagSub(a.mag, b.mag))
    ELSE MkInt(b.neg, MagSub(b.mag, a.mag))

IntSub(a, b) == IntAdd(a, IntNeg(b))

IntMul(a, b) == MkInt(a.neg # b.neg, MagMul(a.mag, b.mag))

\* Division truncating toward zero, b # 0.
IntDivTrunc(a, b) == MkInt(a.neg # b.neg, MagDivMod(a.mag, b.mag).quo)

IntLe(a, b) ==
    IF a.neg # b.neg THEN a.neg
    ELSE IF a.neg THEN MagCmp(a.mag, b.mag) >= 0
    ELSE MagCmp(a.mag, b.mag) <= 0

\* i64::MAX = 2^63 - 1, |i64::MIN| = 2^63 and 2^64, as magnitudes.
I64MaxMag == <<5807, 5477, 368, 3372, 922>>
I64MinMag == <<5808, 5477, 368, 3372, 922>>
TwoTo64Mag == <<1616, 955, 737, 6744, 1844>>

InI64(a) ==
    IF a.neg THEN MagCmp(a.mag, I64MinMag) <= 0
    ELSE MagCmp(a.mag, I64MaxMag) <= 0

\* The two's complement wrap of an integer into the i64 range: u is the
\* integer modulo 2^64.
WrapUnsigned(u) ==
    IF MagCmp(u, I64MaxMag) > 0 THEN MkInt(TRUE, MagSub(TwoTo64Mag, u))
    ELSE MkInt(FALSE, u)
WrapRem(neg, m) ==
    WrapUnsigned(IF neg /\ m # <<>> THEN MagSub(TwoTo64Mag, m) ELSE m)
WrapI64(a) == WrapRem(a.neg, MagDivMod(a.mag, TwoTo64Mag).rem)

\* ------------------------------------------------------------------------
\* Text, ErrorKind and Result
\* ------------------------------------------------------------------------

DigitChars == <<"0", "1", "2", "3", "4", "5", "6", "7", "8", "9">>

IsDigit(ch) == \E i \in 1..10 : DigitChars[i] = ch

\* The value of a decimal digit character.
DigitVal(ch) == (CHOOSE i \in 1..10 : DigitChars[i] = ch) - 1

ErrorKind ==
    {"InvalidExpression", "InsufficientOperands", "DivisionByZero",
     "Overflow", "InvalidToken", "MalformedExpression"}

\* Result<T, ErrorKind>: Ok(v) and Err(e).
Ok(v) == [ok |-> TRUE, val |-> v]
Err(e) == [ok |-> FALSE, err |-> e]

\* ------------------------------------------------------------------------
\* Expression::infix_to_postfix
\* ------------------------------------------------------------------------

\* Mutant: every binary operator has the same precedence.
precedence_flat(operator) ==
    IF operator \in {"+", "-", "*", "/"} THEN 1 ELSE 0

precedence(operator) ==
    IF operator \in {"+", "-"} THEN 1
    ELSE IF operator \in {"*", "/"} THEN 2
    ELSE 0

has_higher_precedence(op1, op2) == precedence(op1) > precedence(op2)

\* The locals of infix_to_postfix: output_queue (a sequence of tokens),
\* stack and number_buffer (sequences of characters); err is "none" until
\* the conversion has returned Err(err).
ConvInit == [err |-> "none", output_queue |-> <<>>, stack |-> <<>>,
             number_buffer |-> <<>>]

flush_num_buffer(st) ==
    IF st.number_buffer # <<>>
    THEN [st EXCEPT !.output_queue = Append(@, st.number_buffer),
                    !.number_buffer = <<>>]
    ELSE st

\* A binary operator's loop: pop to the output while the top of the stack
\* is no "(" and has higher precedence than ch.
RECURSIVE PopHigher(_, _)
PopHigher(st, ch) ==
    IF st.stack = <<>> THEN st
    ELSE IF st.stack[Len(st.stack)] = "("
            \/ ~has_higher_precedence(st.stack[Len(st.stack)], ch)
    THEN st
    ELSE PopHigher([st EXCEPT
                       !.output_queue = Append(@, <<st.stack[Len(st.stack)]>>),
                       !.stack = SubSeq(@, 1, Len(@) - 1)], ch)

\* The loop of ")": pop to the output until a "(" is popped or the stack
\* is empty.
RECURSIVE PopToParen(_)
PopToParen(st) ==
    IF st.stack = <<>> THEN st
    ELSE IF st.stack[Len(st.stack)] = "("
    THEN [st EXCEPT !.stack = SubSeq(@, 1, Len(@) - 1)]
    ELSE PopToParen([st EXCEPT
                        !.output_queue = Append(@, <<st.stack[Len(st.stack)]>>),
                        !.stack = SubSeq(@, 1, Len(@) - 1)])

PushOp(st, ch) == [st EXCEPT !.stack = Append(@, ch)]

\* Mutant: a character of no arm is skipped.
ConvChar_skipping(st, ch) ==
    IF IsDigit(ch) THEN [st EXCEPT !.number_buffer = Append(@, ch)]
    ELSE IF ch = "!"
    THEN [flush_num_buffer(st) EXCEPT !.output_queue = Append(@, <<"!">>)]
    ELSE IF ch = " " THEN flush_num_buffer(st)
    ELSE IF ch \in {"+", "-", "*", "/"}
    THEN PushOp(PopHigher(flush_num_buffer(st), ch), ch)
    ELSE IF ch = "(" THEN PushOp(st, ch)
    ELSE IF ch = ")" THEN PopToParen(flush_num_buffer(st))
    ELSE st

\* One iteration of the scan: the match on the peeked character ch.
ConvChar(st, ch) ==
    IF IsDigit(ch) THEN [st EXCEPT !.number_buffer = Append(@, ch)]
    ELSE IF ch = "!"
    THEN [flush_num_buffer(st) EXCEPT !.output_queue = Append(@, <<"!">>)]
    ELSE IF ch = " " THEN flush_num_buffer(st)
    ELSE IF ch \in {"+", "-", "*", "/"}
    THEN PushOp(PopHigher(flush_num_buffer(st), ch), ch)
    ELSE IF ch = "(" THEN PushOp(st, ch)
    ELSE IF ch = ")" THEN PopToParen(flush_num_buffer(st))
    ELSE [st EXCEPT !.err = "InvalidExpression"]

\* The scan of the characters of e from the i-th on.
RECURSIVE ConvScan(_, _, _)
ConvScan(e, i, st) ==
    IF st.err # "none" \/ i > Len(e) THEN st
    ELSE ConvScan(e, i + 1, ConvChar(st, e[i]))

\* Mutant: a "(" left on the stack is dropped.
RECURSIVE ConvDrain_lenient(_)
ConvDrain_lenient(st) ==
    IF st.err # "none" \/ st.stack = <<>> THEN st
    ELSE IF st.stack[Len(st.stack)] = "("
    THEN ConvDrain_lenient([st EXCEPT !.stack = SubSeq(@, 1, Len(@) - 1)])
    ELSE ConvDrain_lenient([st EXCEPT
                       !.output_queue = Append(@, <<st.stack[Len(st.stack)]>>),
                       !.stack = SubSeq(@, 1, Len(@) - 1)])

\* The drain of the operator stack at the end of the input.
RECURSIVE ConvDrain(_)
ConvDrain(st) ==
    IF st.err # "none" \/ st.stack = <<>> THEN st
    ELSE IF st.stack[Len(st.stack)] = "("
    THEN [st EXCEPT !.err = "MalformedExpression"]
    ELSE ConvDrain([st EXCEPT
                       !.output_queue = Append(@, <<st.stack[Len(st.stack)]>>),
                       !.stack = SubSeq(@, 1, Len(@) - 1)])

ConvFlushEnd(st) == IF st.err # "none" THEN st ELSE flush_num_buffer(st)

\* output_queue.into_iter().collect::<Vec<_>>().join(" ")
RECURSIVE JoinSpace(_)
JoinSpace(tokens) ==
    IF tokens = <<>> THEN <<>>
    ELSE IF Len(tokens) = 1 THEN tokens[1]
    ELSE tokens[1] \o <<" ">> \o JoinSpace(Tail(tokens))

\* The whole conversion of e: the final locals; err is "none" when the
\* call returns Ok(()) and stores JoinSpace(output_queue) in post_fix.
infix_to_postfix(e) == ConvDrain(ConvFlushEnd(ConvScan(e, 1, ConvInit)))

\* ------------------------------------------------------------------------
\* Expression::compute_expression: tokens and one token's effect
\* ------------------------------------------------------------------------

\* self.post_fix.split_whitespace().collect(): cur is the token being read.
RECURSIVE SplitFrom(_, _, _, _)
SplitFrom(text, k, cur, acc) ==
    IF k > Len(text) THEN (IF cur = <<>> THEN acc ELSE Append(acc, cur))
    ELSE IF text[k] = " "
    THEN SplitFrom(text, k + 1, <<>>, IF cur = <<>> THEN acc ELSE Append(acc, cur))
    ELSE SplitFrom(text, k + 1, Append(cur, text[k]), acc)

split_whitespace(text) == SplitFrom(text, 1, <<>>, <<>>)

AllDigits(t) == \A k \in 1..Len(t) : IsDigit(t[k])

\* The magnitude of a run of decimal digits.
RECURSIVE ParseMag(_)
ParseMag(digits) ==
    IF digits = <<>> THEN <<>>
    ELSE MagAdd(MagMulSmall(ParseMag(SubSeq(digits, 1, Len(digits) - 1)), 10),
                NatToMag(DigitVal(digits[Len(digits)])))

ParseSigned(neg, digits) ==
    IF digits # <<>> /\ AllDigits(digits) /\ InI64(MkInt(neg, ParseMag(digits)))
    THEN Ok(MkInt(neg, ParseMag(digits)))
    ELSE Err("InvalidToken")

\* token.parse::<i64>(): an optional sign, then one or more decimal digits,
\* the value within the i64 range.
parse_i64(token) ==
    IF token = <<>> THEN Err("InvalidToken")
    ELSE IF token[1] \in {"+", "-"} THEN ParseSigned(token[1] = "-", Tail(token))
    ELSE ParseSigned(FALSE, token)

\* The outcomes of one arithmetic operator on the i64 operands: "value" (the
\* result to push), "err" (the Err returned) or "panic".  An overflowing
\* +, - or * panics where overflow checks are compiled in and wraps where
\* they are not; i64::MIN / -1 always panics.
WrapOrPanic(exact) ==
    IF InI64(exact) THEN {[kind |-> "value", val |-> exact]}
    ELSE {[kind |-> "panic"], [kind |-> "value", val |-> WrapI64(exact)]}

\* Mutant: the divisor is not compared with 0, and the division by zero
\* panics.
ApplyOperator_unchecked(token, operand1, operand2) ==
    IF token = <<"+">> THEN WrapOrPanic(IntAdd(operand1, operand2))
    ELSE IF token = <<"-">> THEN WrapOrPanic(IntSub(operand1, operand2))
    ELSE IF token = <<"*">> THEN WrapOrPanic(IntMul(operand1, operand2))
    ELSE IF operand2 # Z(0) /\ InI64(IntDivTrunc(operand1, operand2))
    THEN {[kind |-> "value", val |-> IntDivTrunc(operand1, operand2)]}
    ELSE {[kind |-> "panic"]}

ApplyOperator(token, operand1, operand2) ==
    IF token = <<"+">> THEN WrapOrPanic(IntAdd(operand1, operand2))
    ELSE IF token = <<"-">> THEN WrapOrPanic(IntSub(operand1, operand2))
    ELSE IF token = <<"*">> THEN WrapOrPanic(IntMul(operand1, operand2))
    ELSE IF operand2 = Z(0)
    THEN {[kind |-> "err", err |-> "DivisionByZero"]}
    ELSE IF InI64(IntDivTrunc(operand1, operand2))
    THEN {[kind |-> "value", val |-> IntDivTrunc(operand1, operand2)]}
    ELSE {[kind |-> "panic"]}

IsOperatorToken(token) == token \in {<<"+">>, <<"-">>, <<"*">>, <<"/">>}

\* Mutant: a short stack is reported as MalformedExpression.
TokenOutcomes_other_kind(st, token) ==
    IF IsOperatorToken(token)
    THEN IF Len(st) < 2
         THEN {[kind |-> "err", err |-> "MalformedExpression"]}
         ELSE ApplyOperator(token, st[Len(st) - 1], st[Len(st)])
    ELSE IF parse_i64(token).ok
    THEN {[kind |-> "value", val |-> parse_i64(token).val]}
    ELSE {[kind |-> "err", err |-> "InvalidToken"]}

\* The outcomes of the match on a token other than "!", on value stack st.
TokenOutcomes(st, token) ==
    IF IsOperatorToken(token)
    THEN IF Len(st) < 2
         THEN {[kind |-> "err", err |-> "InsufficientOperands"]}
         ELSE ApplyOperator(token, st[Len(st) - 1], st[Len(st)])
    ELSE IF parse_i64(token).ok
    THEN {[kind |-> "value", val |-> parse_i64(token).val]}
    ELSE {[kind |-> "err", err |-> "InvalidToken"]}

\* The stack a token other than "!" reads from, with its operands popped.
PoppedStack(st, token) ==
    IF IsOperatorToken(token) THEN SubSeq(st, 1, Len(st) - 2) ELSE st

\* Mutant: the absolute value is taken.
as_usize_abs(a) == a.mag

\* a as usize, on a 64-bit target.
as_usize(a) == IF a.neg THEN MagSub(TwoTo64Mag, a.mag) ELSE a.mag

\* Mutant: the product wraps instead of being checked.
checked_mul_wrapping(last, k) ==
    Ok(WrapI64(MkInt(last.neg, MagMulSmall(last.mag, k))))

\* last.checked_mul(i as i64), last >= 0 and 0 <= i <= 10000.
checked_mul(last, k) ==
    IF InI64(MkInt(last.neg, MagMulSmall(last.mag, k)))
    THEN Ok(MkInt(last.neg, MagMulSmall(last.mag, k)))
    ELSE Err("Overflow")

\* ------------------------------------------------------------------------
\* State
\* ------------------------------------------------------------------------

\* The number of threads, each owning one Expression.
NumThreads == 2
Threads == 1..NumThreads

VARIABLES
    expr,      \* expr[p]: Expression.expr of thread p's Expression
    post_fix,  \* post_fix[p]: Expression.post_fix
    result,    \* result[p]: Expression.result
    call,      \* call[p]: the method of the Expression p called last
    ret,       \* ret[p]: what that call returned: "Ok" or an ErrorKind;
               \* "none" while it runs (and after new), "panic" if it panicked
    pc,        \* pc[p]: where p is: "idle" (in no call), "loop" (the token
               \* loop of compute_expression), "lock", "extend", "get"
               \* (in factorial), "panicked"
    tokens,    \* tokens[p]: the tokens compute_expression has yet to read
    stack,     \* stack[p]: the value stack of compute_expression
    n,         \* n[p]: the argument of factorial, a usize
    i,         \* i[p]: the index of factorial's extension loop
    cache,     \* the vector in FACTORIAL_CACHE; cache[k + 1] is its index k
    lock       \* the holder of FACTORIAL_CACHE's mutex, 0 when it is free

vars == <<expr, post_fix, result, call, ret, pc, tokens, stack, n, i, cache, lock>>

exprVars == <<expr, post_fix, result>>
localVars == <<tokens, stack, n, i>>
sharedVars == <<cache, lock>>

\* lazy_static FACTORIAL_CACHE = Mutex::new(vec![1, 1]); every thread holds
\* Expression::new("").
Init ==
    /\ expr = [p \in Threads |-> <<>>]
    /\ post_fix = [p \in Threads |-> <<>>]
    /\ result = [p \in Threads |-> Err("InvalidExpression")]
    /\ call = [p \in Threads |-> "new"]
    /\ ret = [p \in Threads |-> "none"]
    /\ pc = [p \in Threads |-> "idle"]
    /\ tokens = [p \in Threads |-> <<>>]
    /\ stack = [p \in Threads |-> <<>>]
    /\ n = [p \in Threads |-> <<>>]
    /\ i = [p \in Threads |-> 0]
    /\ cache = <<Z(1), Z(1)>>
    /\ lock = 0

\* ------------------------------------------------------------------------
\* Operations
\* ------------------------------------------------------------------------

\* Expression::new(e): p replaces its Expression by a new one.
New(p, e) ==
    /\ pc[p] = "idle"
    /\ expr' = [expr EXCEPT ![p] = e]
    /\ post_fix' = [post_fix EXCEPT ![p] = <<>>]
    /\ result' = [result EXCEPT ![p] = Err("InvalidExpression")]
    /\ call' = [call EXCEPT ![p] = "new"]
    /\ ret' = [ret EXCEPT ![p] = "none"]
    /\ UNCHANGED <<pc, localVars, sharedVars>>

\* An assignment to the public field post_fix.
SetPostFix(p, text) ==
    /\ pc[p] = "idle"
    /\ post_fix' = [post_fix EXCEPT ![p] = text]
    /\ call' = [call EXCEPT ![p] = "set_post_fix"]
    /\ ret' = [ret EXCEPT ![p] = "none"]
    /\ UNCHANGED <<expr, result, pc, localVars, sharedVars>>

\* The post_fix infix_to_postfix leaves: assigned only on Ok(()).
ConvertedPostFix(old, e) ==
    IF infix_to_postfix(e).err = "none"
    THEN JoinSpace(infix_to_postfix(e).output_queue)
    ELSE old

ConvertedRet(e) ==
    IF infix_to_postfix(e).err = "none" THEN "Ok" ELSE infix_to_postfix(e).err

\* p calls infix_to_postfix, which touches nothing shared.
InfixToPostfix(p) ==
    /\ pc[p] = "idle"
    /\ post_fix' = [post_fix EXCEPT ![p] = ConvertedPostFix(@, expr[p])]
    /\ call' = [call EXCEPT ![p] = "infix_to_postfix"]
    /\ ret' = [ret EXCEPT ![p] = ConvertedRet(expr[p])]
    /\ UNCHANGED <<expr, result, pc, localVars, sharedVars>>

\* p enters compute_expression: the postfix text is split, the stack empty.
ComputeStart(p) ==
    /\ pc[p] = "idle"
    /\ call' = [call EXCEPT ![p] = "compute_expression"]
    /\ ret' = [ret EXCEPT ![p] = "none"]
    /\ pc' = [pc EXCEPT ![p] = "loop"]
    /\ tokens' = [tokens EXCEPT ![p] = split_whitespace(post_fix[p])]
    /\ stack' = [stack EXCEPT ![p] = <<>>]
    /\ UNCHANGED <<exprVars, n, i, sharedVars>>

\* p calls compute_expression again, right after a call of it that returned:
\* the same entry, with ret still showing what the earlier call returned.
ComputeAgain(p) ==
    /\ pc[p] = "idle"
    /\ call[p] \in {"compute_expression", "compute_expression again"}
    /\ ret[p] # "none"
    /\ call' = [call EXCEPT ![p] = "compute_expression again"]
    /\ pc' = [pc EXCEPT ![p] = "loop"]
    /\ tokens' = [tokens EXCEPT ![p] = split_whitespace(post_fix[p])]
    /\ stack' = [stack EXCEPT ![p] = <<>>]
    /\ UNCHANGED <<exprVars, ret, n, i, sharedVars>>

\* Mutant: compute_expression is called whatever compute is.
ProcessExpression_always(p, compute) ==
    /\ pc[p] = "idle"
    /\ post_fix' = [post_fix EXCEPT ![p] = ConvertedPostFix(@, expr[p])]
    /\ call' = [call EXCEPT ![p] =
                  IF compute THEN "process_expression(true)"
                  ELSE "process_expression(false)"]
    /\ IF ConvertedRet(expr[p]) = "Ok"
       THEN /\ ret' = [ret EXCEPT ![p] = "none"]
            /\ pc' = [pc EXCEPT ![p] = "loop"]
            /\ tokens' = [tokens EXCEPT ![p] =
                            split_whitespace(ConvertedPostFix(post_fix[p], expr[p]))]
            /\ stack' = [stack EXCEPT ![p] = <<>>]
       ELSE /\ ret' = [ret EXCEPT ![p] = ConvertedRet(expr[p])]
            /\ UNCHANGED <<pc, tokens, stack>>
    /\ UNCHANGED <<expr, result, n, i, sharedVars>>

\* process_expression(compute): the conversion, whose Err is returned;
\* then, with compute, compute_expression, whose return is returned.
ProcessExpression(p, compute) ==
    /\ pc[p] = "idle"
    /\ post_fix' = [post_fix EXCEPT ![p] = ConvertedPostFix(@, expr[p])]
    /\ call' = [call EXCEPT ![p] =
                  IF compute THEN "process_expression(true)"
                  ELSE "process_expression(false)"]
    /\ IF compute /\ ConvertedRet(expr[p]) = "Ok"
       THEN /\ ret' = [ret EXCEPT ![p] = "none"]
            /\ pc' = [pc EXCEPT ![p] = "loop"]
            /\ tokens' = [tokens EXCEPT ![p] =
                            split_whitespace(ConvertedPostFix(post_fix[p], expr[p]))]
            /\ stack' = [stack EXCEPT ![p] = <<>>]
       ELSE /\ ret' = [ret EXCEPT ![p] = ConvertedRet(expr[p])]
            /\ UNCHANGED <<pc, tokens, stack>>
    /\ UNCHANGED <<expr, result, n, i, sharedVars>>

\* p leaves compute_expression (and process_expression around it) with r;
\* the locals are dropped.
Return(p, r) ==
    /\ ret' = [ret EXCEPT ![p] = r]
    /\ pc' = [pc EXCEPT ![p] = IF r = "panic" THEN "panicked" ELSE "idle"]
    /\ tokens' = [tokens EXCEPT ![p] = <<>>]
    /\ stack' = [stack EXCEPT ![p] = <<>>]
    /\ n' = [n EXCEPT ![p] = <<>>]
    /\ i' = [i EXCEPT ![p] = 0]

\* One iteration of the token loop on a token other than "!".
ComputeToken(p) ==
    /\ pc[p] = "loop"
    /\ tokens[p] # <<>>
    /\ Head(tokens[p]) # <<"!">>
    /\ \E o \in TokenOutcomes(stack[p], Head(tokens[p])) :
          IF o.kind = "value"
          THEN /\ stack' = [stack EXCEPT ![p] =
                              Append(PoppedStack(@, Head(tokens[p])), o.val)]
               /\ tokens' = [tokens EXCEPT ![p] = Tail(@)]
               /\ UNCHANGED <<ret, pc, n, i>>
          ELSE Return(p, IF o.kind = "panic" THEN "panic" ELSE o.err)
    /\ UNCHANGED <<exprVars, call, sharedVars>>

\* The "!" token: with a value on the stack p pops it and calls
\* factorial(a as usize), where it waits for the mutex.
ComputeFactorial(p) ==
    /\ pc[p] = "loop"
    /\ tokens[p] # <<>>
    /\ Head(tokens[p]) = <<"!">>
    /\ IF stack[p] # <<>>
       THEN /\ n' = [n EXCEPT ![p] = as_usize(stack[p][Len(stack[p])])]
            /\ stack' = [stack EXCEPT ![p] = SubSeq(@, 1, Len(@) - 1)]
            /\ tokens' = [tokens EXCEPT ![p] = Tail(@)]
            /\ pc' = [pc EXCEPT ![p] = "lock"]
            /\ UNCHANGED <<ret, i>>
       ELSE Return(p, "InsufficientOperands")
    /\ UNCHANGED <<exprVars, call, sharedVars>>

\* Mutant: the product replaces the last entry.
cache_overwrite(c, v) == [c EXCEPT ![Len(c)] = v]

\* cache.push(result)
cache_push(c, v) == Append(c, v)

\* Mutant: the last entry is returned whatever the index.
cache_get_last(c, m) == Ok(c[Len(c)])

\* cache.get(n).copied().ok_or(ErrorKind::InvalidExpression), n a usize.
cache_get(c, m) ==
    IF MagCmp(m, NatToMag(Len(c))) < 0 THEN Ok(c[MagLow(m) + 1])
    ELSE Err("InvalidExpression")

\* Mutant: n > cache.len().
AtOrBeyond_strict(m, len) == MagCmp(m, NatToMag(len)) > 0

\* n >= cache.len(), n a usize.
AtOrBeyond(m, len) == MagCmp(m, NatToMag(len)) >= 0

\* FACTORIAL_CACHE.lock(): p takes the free mutex (never poisoned: no thread
\* panics holding it) and starts the loop at cache.len() if n >= cache.len().
FactorialLock(p) ==
    /\ pc[p] = "lock"
    /\ lock = 0
    /\ lock' = p
    /\ IF AtOrBeyond(n[p], Len(cache))
       THEN /\ pc' = [pc EXCEPT ![p] = "extend"]
            /\ i' = [i EXCEPT ![p] = Len(cache)]
       ELSE /\ pc' = [pc EXCEPT ![p] = "get"]
            /\ UNCHANGED i
    /\ UNCHANGED <<exprVars, call, ret, tokens, stack, n, cache>>

\* Mutant: the overflow return leaves the mutex locked.
FactorialExtend_keeps_lock(p) ==
    /\ pc[p] = "extend"
    /\ lock = p
    /\ IF ~AtOrBeyond(n[p], i[p])
       THEN /\ pc' = [pc EXCEPT ![p] = "get"]
            /\ UNCHANGED <<ret, localVars, sharedVars>>
       ELSE IF checked_mul(cache[Len(cache)], i[p]).ok
       THEN /\ cache' = cache_push(cache, checked_mul(cache[Len(cache)], i[p]).val)
            /\ i' = [i EXCEPT ![p] = @ + 1]
            /\ UNCHANGED <<ret, pc, tokens, stack, n, lock>>
       ELSE /\ Return(p, "Overflow")
            /\ UNCHANGED <<cache, lock>>
    /\ UNCHANGED <<exprVars, call>>

\* One iteration of for i in cache.len()..=n: the checked product is pushed,
\* or factorial returns Err(Overflow), the guard is dropped and
\* compute_expression returns the error.
FactorialExtend(p) ==
    /\ pc[p] = "extend"
    /\ lock = p
    /\ IF ~AtOrBeyond(n[p], i[p])
       THEN /\ pc' = [pc EXCEPT ![p] = "get"]
            /\ UNCHANGED <<ret, localVars, sharedVars>>
       ELSE IF checked_mul(cache[Len(cache)], i[p]).ok
       THEN /\ cache' = cache_push(cache, checked_mul(cache[Len(cache)], i[p]).val)
            /\ i' = [i EXCEPT ![p] = @ + 1]
            /\ UNCHANGED <<ret, pc, tokens, stack, n, lock>>
       ELSE /\ Return(p, "Overflow")
            /\ lock' = 0
            /\ UNCHANGED cache
    /\ UNCHANGED <<exprVars, call>>

\* cache.get(n).copied().ok_or(InvalidExpression): the guard is dropped and
\* the value pushed on the stack of compute_expression.
FactorialReturn(p) ==
    /\ pc[p] = "get"
    /\ lock = p
    /\ lock' = 0
    /\ IF cache_get(cache, n[p]).ok
       THEN /\ stack' = [stack EXCEPT ![p] = Append(@, cache_get(cache, n[p]).val)]
            /\ pc' = [pc EXCEPT ![p] = "loop"]
            /\ n' = [n EXCEPT ![p] = <<>>]
            /\ i' = [i EXCEPT ![p] = 0]
            /\ UNCHANGED <<ret, tokens>>
       ELSE Return(p, cache_get(cache, n[p]).err)
    /\ UNCHANGED <<exprVars, call, cache>>

\* Mutant: the top of any non-empty stack is the result.
ComputeFinish_top(p) ==
    /\ pc[p] = "loop"
    /\ tokens[p] = <<>>
    /\ IF Len(stack[p]) >= 1
       THEN /\ result' = [result EXCEPT ![p] = Ok(stack[p][Len(stack[p])])]
            /\ Return(p, "Ok")
       ELSE /\ Return(p, "MalformedExpression")
            /\ UNCHANGED result
    /\ UNCHANGED <<expr, post_fix, call, sharedVars>>

\* Mutant: the error of the final check is stored in result as well.
ComputeFinish_stores_error(p) ==
    /\ pc[p] = "loop"
    /\ tokens[p] = <<>>
    /\ IF Len(stack[p]) = 1
       THEN /\ result' = [result EXCEPT ![p] = Ok(stack[p][1])]
            /\ Return(p, "Ok")
       ELSE /\ result' = [result EXCEPT ![p] = Err("MalformedExpression")]
            /\ Return(p, "MalformedExpression")
    /\ UNCHANGED <<expr, post_fix, call, sharedVars>>

\* After the loop: the stack must hold exactly the result.
ComputeFinish(p) ==
    /\ pc[p] = "loop"
    /\ tokens[p] = <<>>
    /\ IF Len(stack[p]) = 1
       THEN /\ result' = [result EXCEPT ![p] = Ok(stack[p][1])]
            /\ Return(p, "Ok")
       ELSE /\ Return(p, "MalformedExpression")
            /\ UNCHANGED result
    /\ UNCHANGED <<expr, post_fix, call, sharedVars>>

\* ------------------------------------------------------------------------
\* Inputs and specifications
\* ------------------------------------------------------------------------

\* The decimal text of a natural number.
RECURSIVE NumText(_)
NumText(k) ==
    IF k < 10 THEN <<DigitChars[k + 1]>>
    ELSE NumText(k \div 10) \o <<DigitChars[(k % 10) + 1]>>

\* The expressions of the crate's documentation and tests, and others that
\* reach each error.
E_3p4m2 == <<"3", "+", "4", "*", "2">>
E_4fact_div == <<"4", "!", "/", "(", "2", "+", "3", ")">>
E_all_ops == <<"2", "+", "3", "*", "4", "-", "5", "/", "2">>
E_complex == <<"3", "+", "4", "*", "2", "/", "(", "1", "-", "5", ")", "+", "2", "*", "3">>
E_pow_fact == <<"(", "2", "*", "3", ")", "!", " ", "+", " ", "2", "!", " ", "+", " ", "2", "^", "3">>
E_10div0 == <<"1", "0", "/", "0">>
E_5fact == <<"5", "!">>
E_3p2 == <<"3", "+", "2">>
E_open_paren == <<"(", "1", "+", "2">>
E_close_paren == <<"1", "+", "2", ")">>
E_digit_paren == <<"2", "(", "3">>
E_neg_fact == <<"(", "1", "-", "2", ")", "!">>
E_21fact == <<"2", "1", "!">>
E_fact_product == <<"2", "0", "!", "*", "2", "0", "!">>
E_empty == <<>>

SeqInputs ==
    {E_3p4m2, E_4fact_div, E_all_ops, E_complex,
     E_pow_fact, E_10div0, E_5fact, E_3p2,
     E_open_paren, E_close_paren, E_digit_paren, E_neg_fact,
     E_21fact, E_fact_product, E_empty}

\* Postfix texts assigned to the public field post_fix.
P_plus == <<"+">>
P_two_values == <<"3", " ", "4">>
P_bang == <<"!">>
P_bad_token == <<"1", " ", "x">>
P_spaces == <<"1", "2", " ", " ", "3", " ", "-">>

P_one_value == <<"4", " ", "-">>

PostfixInputs ==
    {P_plus, P_two_values, P_bang, P_bad_token, P_spaces, P_one_value}

\* The thread of the single-threaded specifications.
Main == 1

NewExpr(p) == \E e \in SeqInputs : New(p, e)
SetPostFixText(p) == \E text \in PostfixInputs : SetPostFix(p, text)
Process(p) == \E compute \in BOOLEAN : ProcessExpression(p, compute)

\* One thread using the whole interface on the inputs above.
NextSeq ==
    \E p \in {Main} :
        \/ NewExpr(p)
        \/ SetPostFixText(p)
        \/ InfixToPostfix(p)
        \/ ComputeStart(p)
        \/ Process(p)
        \/ ComputeToken(p)
        \/ ComputeFactorial(p)
        \/ FactorialLock(p)
        \/ FactorialExtend(p)
        \/ FactorialReturn(p)
        \/ ComputeFinish(p)

SpecSeq == Init /\ [][NextSeq]_vars

\* The largest literal of the chains a op1 b op2 c.
MaxLit == 4
Literals == 0..MaxLit \cup {10 + MaxLit}
BinOps == {"+", "-", "*", "/"}

Chain(a, op1, b, op2, c) ==
    NumText(a) \o <<op1>> \o NumText(b) \o <<op2>> \o NumText(c)

ChainInputs ==
    {Chain(a, op1, b, op2, c) : a \in Literals, b \in Literals, c \in Literals,
                                op1 \in BinOps, op2 \in BinOps}

\* The expressions of SpecChain: the chains and two tests without factorial.
ArithInputs == ChainInputs \cup {E_complex, E_10div0}

\* Main's Expression is Expression::new of one of them.
InitChain ==
    /\ Init!2 /\ Init!3 /\ Init!4 /\ Init!5 /\ Init!6 /\ Init!7 /\ Init!8
    /\ Init!9 /\ Init!10 /\ Init!11 /\ Init!12
    /\ \E e \in ArithInputs : expr = [p \in Threads |-> IF p = Main THEN e ELSE <<>>]

\* One thread converting and evaluating its chain.
NextChain ==
    \E p \in {Main} :
        \/ InfixToPostfix(p)
        \/ ComputeStart(p)
        \/ ComputeToken(p)
        \/ ComputeFinish(p)

SpecChain == InitChain /\ [][NextChain]_vars

\* The largest operand of the expressions k!.
MaxOperand == 22

NewFact(p) == \E k \in 0..MaxOperand : New(p, NumText(k) \o <<"!">>)

\* One thread converting and evaluating k!, one after the other.
NextFact ==
    \E p \in {Main} :
        \/ NewFact(p)
        \/ InfixToPostfix(p)
        \/ ComputeStart(p)
        \/ ComputeToken(p)
        \/ ComputeFactorial(p)
        \/ FactorialLock(p)
        \/ FactorialExtend(p)
        \/ FactorialReturn(p)
        \/ ComputeFinish(p)

SpecFact == Init /\ [][NextFact]_vars

\* The longest text of SpecText.
MaxLen == 4
TextAlphabet == {"1", "+", "(", ")", " ", "!", "^"}
TextInputs == UNION {[1..k -> TextAlphabet] : k \in 0..MaxLen}

\* Main's Expression is Expression::new of a text over TextAlphabet.
InitText ==
    /\ Init!2 /\ Init!3 /\ Init!4 /\ Init!5 /\ Init!6 /\ Init!7 /\ Init!8
    /\ Init!9 /\ Init!10 /\ Init!11 /\ Init!12
    /\ \E e \in TextInputs : expr = [p \in Threads |-> IF p = Main THEN e ELSE <<>>]

SetPostFixOld(p) == SetPostFix(p, P_two_values)

\* One thread converting its text, with or without an earlier postfix text.
NextText ==
    \E p \in {Main} :
        \/ SetPostFixOld(p)
        \/ InfixToPostfix(p)

SpecText == InitText /\ [][NextText]_vars

\* The expressions of the concurrent evaluations.
E_3fact == <<"3", "!">>
ConcInputs == {E_3fact, E_5fact, E_21fact}

NewConc(p) == \E e \in ConcInputs : New(p, e)

\* Every thread converting and evaluating expressions with factorials, all
\* sharing FACTORIAL_CACHE.
Next ==
    \E p \in Threads :
        \/ NewConc(p)
        \/ Process(p)
        \/ ComputeToken(p)
        \/ ComputeFactorial(p)
        \/ FactorialLock(p)
        \/ FactorialExtend(p)
        \/ FactorialReturn(p)
        \/ ComputeFinish(p)

Spec == Init /\ [][Next]_vars

\* The second thread of SpecTwice.
Other == 2

TwiceInputs ==
    {E_3fact, E_5fact, E_21fact, E_neg_fact, E_fact_product, E_10div0,
     E_4fact_div}

NewTwice(p) == \E e \in TwiceInputs : New(p, e)

\* Main converts its expression and evaluates it again and again while the
\* other thread evaluates factorials, both sharing FACTORIAL_CACHE.
NextTwice ==
    \/ \E p \in {Main} :
          \/ NewTwice(p)
          \/ InfixToPostfix(p)
          \/ ComputeStart(p)
          \/ ComputeAgain(p)
    \/ \E p \in {Other} :
          \/ NewConc(p)
          \/ Process(p)
    \/ \E p \in {Main, Other} :
          \/ ComputeToken(p)
          \/ ComputeFactorial(p)
          \/ FactorialLock(p)
          \/ FactorialExtend(p)
          \/ FactorialReturn(p)
          \/ ComputeFinish(p)

SpecTwice == Init /\ [][NextTwice]_vars

\* 3! = 6, (3!)! = 720, and (4!)! = 24!, which overflows in factorial. None
\* has a "+", "-" or "*", whose overflow would be a panic or a wrapped value.
E_3factfact == <<"3", "!", "!">>
E_4factfact == <<"4", "!", "!">>
LiveInputs == {E_3fact, E_3factfact, E_4factfact}

\* The threads of SpecLive.
LiveThreads == {Main, Other}

\* Each of them holds an Expression::new of a factorial expression.
InitLive ==
    /\ Init!2 /\ Init!3 /\ Init!4 /\ Init!5 /\ Init!6 /\ Init!7 /\ Init!8
    /\ Init!9 /\ Init!10 /\ Init!11 /\ Init!12
    /\ \E e1 \in LiveInputs, e2 \in LiveInputs :
          expr = [p \in Threads |->
                    IF p = Main THEN e1 ELSE IF p = Other THEN e2 ELSE <<>>]

\* p starts the one evaluation of its expression.
ProcessOnce(p) ==
    /\ call[p] = "new"
    /\ ProcessExpression(p, TRUE)

\* A step of p's evaluation.
EvalStep(p) ==
    \/ ComputeToken(p)
    \/ ComputeFactorial(p)
    \/ FactorialLock(p)
    \/ FactorialExtend(p)
    \/ FactorialReturn(p)
    \/ ComputeFinish(p)

NextLive ==
    \E p \in LiveThreads :
        \/ ProcessOnce(p)
        \/ EvalStep(p)

\* Two threads evaluate their expressions once, concurrently. A thread that
\* can take a step is scheduled in the end, and so is a thread waiting for
\* a mutex that stays free.
SpecLive ==
    /\ InitLive
    /\ [][NextLive]_vars
    /\ \A p \in LiveThreads : WF_vars(EvalStep(p))

\* ------------------------------------------------------------------------
\* Properties
\* ------------------------------------------------------------------------

\* p's Expression holds the postfix text of its expr.
Converted(p) ==
    /\ infix_to_postfix(expr[p]).err = "none"
    /\ post_fix[p] = JoinSpace(infix_to_postfix(expr[p]).output_queue)

\* p has converted and then evaluated its expr, and the evaluation returned.
Evaluated(p) ==
    /\ pc[p] = "idle"
    /\ ret[p] \notin {"none", "panic"}
    /\ \/ call[p] = "compute_expression" /\ Converted(p)
       \/ call[p] = "process_expression(true)"

\* The value of a run of decimal digits, as an integer of the model checker.
RECURSIVE TextVal(_)
TextVal(digits) ==
    IF digits = <<>> THEN 0
    ELSE 10 * TextVal(SubSeq(digits, 1, Len(digits) - 1))
         + DigitVal(digits[Len(digits)])

\* The positions of the binary operators of a text.
OpPositions(e) == {k \in 1..Len(e) : e[k] \in BinOps}

IsChain(e) ==
    /\ Cardinality(OpPositions(e)) = 2
    /\ \A k \in 1..Len(e) : IsDigit(e[k]) \/ e[k] \in BinOps

\* The parts of a chain a op1 b op2 c.
ChainK1(e) == CHOOSE k \in OpPositions(e) : \A j \in OpPositions(e) : k <= j
ChainK2(e) == CHOOSE k \in OpPositions(e) : \A j \in OpPositions(e) : k >= j
ChainA(e) == TextVal(SubSeq(e, 1, ChainK1(e) - 1))
ChainB(e) == TextVal(SubSeq(e, ChainK1(e) + 1, ChainK2(e) - 1))
ChainC(e) == TextVal(SubSeq(e, ChainK2(e) + 1, Len(e)))
ChainOp1(e) == e[ChainK1(e)]
ChainOp2(e) == e[ChainK2(e)]

\* Arithmetic on integers of the model checker; the quotient is taken of
\* non-negative operands only, where flooring and truncating agree.
RefApply(op, x, y) ==
    IF op = "+" THEN x + y
    ELSE IF op = "-" THEN x - y
    ELSE IF op = "*" THEN x * y
    ELSE x \div y

RefPrec(op) == IF op \in {"*", "/"} THEN 2 ELSE 1

\* (a op1 b) op2 c and a op1 (b op2 c), and whether each divides by zero.
RefLeft(e) ==
    RefApply(ChainOp2(e), RefApply(ChainOp1(e), ChainA(e), ChainB(e)), ChainC(e))
RefRight(e) ==
    RefApply(ChainOp1(e), ChainA(e), RefApply(ChainOp2(e), ChainB(e), ChainC(e)))
LeftDividesByZero(e) ==
    \/ ChainOp1(e) = "/" /\ ChainB(e) = 0
    \/ ChainOp2(e) = "/" /\ ChainC(e) = 0
RightDividesByZero(e) ==
    \/ ChainOp2(e) = "/" /\ ChainC(e) = 0
    \/ ChainOp1(e) = "/" /\ RefApply(ChainOp2(e), ChainB(e), ChainC(e)) = 0

\* C1: a parenthesis-free chain a op1 b op2 c of two operators of equal
\* precedence (no zero divisor), converted and evaluated, yields
\* (a op1 b) op2 c; and "3+4*2/(1-5)+2*3" yields 7.
C1_SamePrecedenceLeftToRight ==
    \A p \in Threads :
        /\ (Evaluated(p) /\ IsChain(expr[p])
            /\ RefPrec(ChainOp1(expr[p])) = RefPrec(ChainOp2(expr[p]))
            /\ ~LeftDividesByZero(expr[p]))
           => (ret[p] = "Ok" /\ result[p] = Ok(Z(RefLeft(expr[p]))))
        /\ (Evaluated(p) /\ expr[p] = E_complex)
           => (ret[p] = "Ok" /\ result[p] = Ok(Z(7)))

\* C2: the operator of higher precedence binds tighter: a lo b hi c yields
\* a lo (b hi c) and a hi b lo c yields (a hi b) lo c (no zero divisor);
\* "3+4*2" yields 11.
C2_HigherPrecedenceBindsTighter ==
    \A p \in Threads :
        /\ (Evaluated(p) /\ IsChain(expr[p])
            /\ RefPrec(ChainOp1(expr[p])) < RefPrec(ChainOp2(expr[p]))
            /\ ~RightDividesByZero(expr[p]))
           => (ret[p] = "Ok" /\ result[p] = Ok(Z(RefRight(expr[p]))))
        /\ (Evaluated(p) /\ IsChain(expr[p])
            /\ RefPrec(ChainOp1(expr[p])) > RefPrec(ChainOp2(expr[p]))
            /\ ~LeftDividesByZero(expr[p]))
           => (ret[p] = "Ok" /\ result[p] = Ok(Z(RefLeft(expr[p]))))
        /\ (Evaluated(p) /\ expr[p] = E_3p4m2)
           => result[p] = Ok(Z(11))

\* "3+4*2" and "4/2-3" have been converted and evaluated (seen at "4/2-3",
\* whose result is negative).
C2_Witness ==
    /\ Evaluated(Main)
    /\ expr[Main] = <<"4", "/", "2", "-", "3">>
    /\ post_fix[Main] = <<"4", " ", "2", " ", "/", " ", "3", " ", "-">>
    /\ result[Main] = Ok(Z(-1))

\* C3: converting and then evaluating "2+3*4-5/2" succeeds and get_result
\* is Ok(11).
C3_AllOperatorsYield11 ==
    \A p \in Threads :
        (Evaluated(p) /\ expr[p] = E_all_ops)
        => (ret[p] = "Ok" /\ result[p] = Ok(Z(11)))

\* C4: converting and then evaluating "4!/(2+3)" succeeds and get_result is
\* Ok(24).
C4_FactorialOverSumYields24 ==
    \A p \in Threads :
        (Evaluated(p) /\ expr[p] = E_4fact_div)
        => (ret[p] = "Ok" /\ result[p] = Ok(Z(24)))

\* C5: "^" is accepted: infix_to_postfix and compute_expression both succeed
\* on "(2*3)! + 2! + 2^3", and the result is 730.
C5_ExponentiationAccepted ==
    \A p \in Threads :
        (expr[p] = E_pow_fact /\ pc[p] = "idle" /\ ret[p] # "none")
        => /\ call[p] \in {"infix_to_postfix", "process_expression(false)"}
              => ret[p] = "Ok"
           /\ call[p] = "process_expression(true)"
              => (ret[p] = "Ok" /\ result[p] = Ok(Z(730)))

\* 0!, 1!, ..., 20! as magnitudes.
FactorialMags ==
    <<<<1>>,
     <<1>>,
     <<2>>,
     <<6>>,
     <<24>>,
     <<120>>,
     <<720>>,
     <<5040>>,
     <<320, 4>>,
     <<2880, 36>>,
     <<8800, 362>>,
     <<6800, 3991>>,
     <<1600, 7900, 4>>,
     <<800, 2702, 62>>,
     <<1200, 7829, 871>>,
     <<8000, 7436, 3076, 1>>,
     <<8000, 8988, 9227, 20>>,
     <<6000, 2809, 6874, 355>>,
     <<8000, 572, 3737, 6402>>,
     <<2000, 883, 1004, 1645, 12>>,
     <<0, 7664, 81, 2902, 243>>>>

Factorial(k) == MkInt(FALSE, FactorialMags[k + 1])

\* The cache holds 0!, 1!, ... at its indices.
CacheValid ==
    /\ Len(cache) <= Len(FactorialMags)
    /\ \A k \in 1..Len(cache) : cache[k] = Factorial(k - 1)

\* An expression k! and its operand.
IsFactExpr(e) ==
    /\ Len(e) >= 2
    /\ e[Len(e)] = "!"
    /\ \A k \in 1..(Len(e) - 1) : IsDigit(e[k])
FactOperand(e) == TextVal(SubSeq(e, 1, Len(e) - 1))

\* p takes a step of its own.
Steps(p) == pc'[p] # pc[p] \/ tokens'[p] # tokens[p] \/ i'[p] # i[p]

\* A step of p in factorial with n below the length of the cache.
CacheHitStep(p) ==
    /\ Steps(p)
    /\ pc[p] \in {"lock", "get"}
    /\ MagCmp(n[p], NatToMag(Len(cache))) < 0

\* C6: for 0 <= k <= 20, evaluating k! yields exactly k!, whatever the cache
\* held ("5!" yields 120); and a factorial call whose n is below the cache's
\* length leaves the cache as it is and returns the entry at n.
C6_FactorialExact ==
    /\ [](\A p \in Threads :
            (Evaluated(p) /\ IsFactExpr(expr[p]) /\ FactOperand(expr[p]) <= 20)
            => (ret[p] = "Ok" /\ result[p] = Ok(Factorial(FactOperand(expr[p])))))
    /\ [][\A p \in Threads :
            CacheHitStep(p)
            => /\ cache' = cache
               /\ pc[p] = "lock" => pc'[p] = "get"
               /\ pc[p] = "get" =>
                     /\ pc'[p] = "loop"
                     /\ stack'[p] = Append(stack[p], cache[MagLow(n[p]) + 1])]_vars

\* "5!" has been evaluated to 120 with the cache already holding 0! to 20!.
C6_Witness ==
    /\ Evaluated(Main)
    /\ expr[Main] = E_5fact
    /\ result[Main] = Ok(Z(120))
    /\ Len(cache) = 21

\* A step of p that applies "/" to a right-hand operand 0.
DividesByZeroStep(p) ==
    /\ Steps(p)
    /\ pc[p] = "loop"
    /\ tokens[p] # <<>>
    /\ Head(tokens[p]) = <<"/">>
    /\ Len(stack[p]) >= 2
    /\ stack[p][Len(stack[p])] = Z(0)

\* C7: when compute_expression applies "/" to a right-hand operand 0 it
\* returns Err(DivisionByZero) and stores no result; for "10/0" the
\* conversion succeeds and the evaluation fails with DivisionByZero.
C7_DivisionByZero ==
    /\ [][\A p \in Threads :
            DividesByZeroStep(p)
            => /\ ret'[p] = "DivisionByZero"
               /\ pc'[p] = "idle"
               /\ result'[p] = result[p]]_vars
    /\ [](\A p \in Threads :
            (expr[p] = E_10div0 /\ pc[p] = "idle")
            => /\ call[p] = "infix_to_postfix" => ret[p] = "Ok"
               /\ Evaluated(p) =>
                     /\ ret[p] = "DivisionByZero"
                     /\ result[p] = Err("InvalidExpression"))

\* "10/0" has been converted and its evaluation has failed.
C7_Witness ==
    /\ Evaluated(Main)
    /\ expr[Main] = E_10div0
    /\ post_fix[Main] = <<"1", "0", " ", "0", " ", "/">>
    /\ ret[Main] = "DivisionByZero"

\* C8: the cache starts as [1, 1]; in every state, whatever the interleaving
\* of the threads' factorial calls, it holds k! at every index k; each step
\* leaves it or appends one entry.
C8_CacheInvariant ==
    /\ cache = <<Z(1), Z(1)>>
    /\ []CacheValid
    /\ [][\/ cache' = cache
          \/ /\ Len(cache') = Len(cache) + 1
             /\ SubSeq(cache', 1, Len(cache)) = cache]_vars

\* A thread waits for the mutex while another, holding it, is extending the
\* cache beyond 5!.
C8_Witness ==
    \E p \in Threads, q \in Threads :
        /\ p # q
        /\ pc[p] = "lock"
        /\ pc[q] = "extend"
        /\ lock = q
        /\ Len(cache) > 6

\* C9: a factorial operand k >= 21 makes the evaluation fail with Overflow;
\* after it the cache holds 0! to 20!, all valid; and an evaluation of m!,
\* m <= 20, on that cache succeeds with m!.
C9_OverflowKeepsCache ==
    \A p \in Threads :
        /\ (Evaluated(p) /\ IsFactExpr(expr[p]) /\ FactOperand(expr[p]) >= 21)
           => /\ ret[p] = "Overflow"
              /\ result[p] = Err("InvalidExpression")
              /\ Len(cache) = 21
              /\ CacheValid
              /\ lock = 0
        /\ (Evaluated(p) /\ IsFactExpr(expr[p]) /\ FactOperand(expr[p]) <= 20
            /\ Len(cache) = 21)
           => (ret[p] = "Ok" /\ result[p] = Ok(Factorial(FactOperand(expr[p]))))

\* "21!" has failed with Overflow.
C9_Witness ==
    /\ Evaluated(Main)
    /\ expr[Main] = E_21fact
    /\ ret[Main] = "Overflow"
    /\ Len(cache) = 21

\* The number of "(" of e[1..k] that no later ")" of e[1..k] closes.
RECURSIVE OpenParens(_, _)
OpenParens(e, k) ==
    IF k = 0 THEN 0
    ELSE IF e[k] = "(" THEN OpenParens(e, k - 1) + 1
    ELSE IF e[k] = ")" /\ OpenParens(e, k - 1) > 0 THEN OpenParens(e, k - 1) - 1
    ELSE OpenParens(e, k - 1)

HasUnclosedParen(e) == OpenParens(e, Len(e)) > 0

SupportedChars == {"!", " ", "+", "-", "*", "/", "(", ")"}
AllSupported(e) == \A k \in 1..Len(e) : IsDigit(e[k]) \/ e[k] \in SupportedChars

\* A step in which p calls infix_to_postfix.
ConvertStep(p) ==
    /\ pc[p] = "idle"
    /\ call'[p] = "infix_to_postfix"
    /\ expr'[p] = expr[p]

\* C10 as stated: any expression with a "(" that no later ")" closes makes
\* infix_to_postfix return Err(MalformedExpression), post_fix unchanged.
C10_UnclosedParenAnyText ==
    [][\A p \in Threads :
          (ConvertStep(p) /\ HasUnclosedParen(expr[p]))
          => (ret'[p] = "MalformedExpression" /\ post_fix'[p] = post_fix[p])]_vars

\* C10, amended: an expression of supported characters only (digits, space,
\* "!", the four operators, parentheses) with a "(" that no later ")"
\* closes makes infix_to_postfix return Err(MalformedExpression), post_fix
\* unchanged.
C10_UnclosedParen ==
    [][\A p \in Threads :
          (ConvertStep(p) /\ HasUnclosedParen(expr[p]) /\ AllSupported(expr[p]))
          => (ret'[p] = "MalformedExpression" /\ post_fix'[p] = post_fix[p])]_vars

\* The conversion of "(1+1", after post_fix was set to "3 4", has failed and
\* left post_fix.
C10_Witness ==
    /\ call[Main] = "infix_to_postfix"
    /\ expr[Main] = <<"(", "1", "+", "1">>
    /\ ret[Main] = "MalformedExpression"
    /\ post_fix[Main] = P_two_values

\* p is inside compute_expression, or inside process_expression.
InCall(p) == pc[p] \in {"loop", "lock", "extend", "get"}

\* A step in which a call of p to compute_expression or process_expression
\* returns.
ReturnsStep(p) ==
    \/ /\ InCall(p)
       /\ pc'[p] = "idle"
       /\ call'[p] \in {"compute_expression", "process_expression(true)"}
    \/ /\ pc[p] = "idle"
       /\ pc'[p] = "idle"
       /\ ret'[p] # "none"
       /\ call'[p] \in {"process_expression(true)", "process_expression(false)"}

\* C11: a step inside compute_expression or process_expression changes
\* result only when the call returns Ok(()), and then to an Ok(v); so a call
\* that returns Err(e) leaves result as it was, and a new Expression, whose
\* result is the placeholder Err(InvalidExpression), keeps it through such
\* calls.
C11_ResultOnlyOnOk ==
    [][\A p \in Threads :
          /\ (ReturnsStep(p) /\ ret'[p] \in ErrorKind) => result'[p] = result[p]
          /\ (InCall(p) /\ pc'[p] # "idle") => result'[p] = result[p]
          /\ result'[p] # result[p]
             => \/ call'[p] = "new" /\ result'[p] = Err("InvalidExpression")
                \/ /\ ReturnsStep(p) /\ ret'[p] = "Ok" /\ result'[p].ok
                   /\ call'[p] \in {"compute_expression",
                                    "process_expression(true)"}]_vars

\* compute_expression on the postfix text "+" has failed and the result of
\* the earlier evaluation of "3+2" is still there.
C11_Witness ==
    /\ call[Main] = "compute_expression"
    /\ pc[Main] = "idle"
    /\ post_fix[Main] = P_plus
    /\ ret[Main] = "InsufficientOperands"
    /\ expr[Main] = E_3p2
    /\ result[Main] = Ok(Z(5))

\* A step in which p calls process_expression(compute).
ProcessStep(p, mode) ==
    /\ pc[p] = "idle"
    /\ call'[p] = mode
    /\ <<post_fix'[p], ret'[p], pc'[p], call'[p]>>
          # <<post_fix[p], ret[p], pc[p], call[p]>>

\* The conversion has run on the text of p: on success post_fix is its
\* output, on failure post_fix is left and the error is what the call returns.
ConversionRan(p) ==
    IF infix_to_postfix(expr[p]).err = "none"
    THEN post_fix'[p] = JoinSpace(infix_to_postfix(expr[p]).output_queue)
    ELSE /\ post_fix'[p] = post_fix[p]
         /\ ret'[p] = infix_to_postfix(expr[p]).err
         /\ pc'[p] = "idle"

\* C12: process_expression(compute) runs the conversion first. With compute
\* false it returns without evaluating: post_fix is the converter's output,
\* result and the factorial cache are as before. With compute true the
\* evaluation starts on the converted text only if the conversion succeeded,
\* and a call that returned Ok(()) has left post_fix converted and result an
\* Ok(v).
C12_ProcessModes ==
    /\ [][\A p \in Threads :
            /\ ProcessStep(p, "process_expression(false)")
               => /\ ConversionRan(p)
                  /\ pc'[p] = "idle"
                  /\ ret'[p] # "none"
                  /\ infix_to_postfix(expr[p]).err = "none" => ret'[p] = "Ok"
                  /\ result' = result
                  /\ cache' = cache
                  /\ lock' = lock
            /\ ProcessStep(p, "process_expression(true)")
               => /\ ConversionRan(p)
                  /\ result' = result
                  /\ cache' = cache
                  /\ infix_to_postfix(expr[p]).err = "none"
                     => /\ pc'[p] = "loop"
                        /\ tokens'[p] = split_whitespace(post_fix'[p])
                        /\ stack'[p] = <<>>]_vars
    /\ [](\A p \in Threads :
            (pc[p] = "idle" /\ call[p] = "process_expression(true)"
             /\ ret[p] = "Ok")
            => (Converted(p) /\ result[p].ok))

\* process_expression(false) on "5!" has returned: the postfix text is
\* there, nothing was evaluated.
C12_Witness ==
    /\ call[Main] = "process_expression(false)"
    /\ pc[Main] = "idle"
    /\ ret[Main] = "Ok"
    /\ expr[Main] = E_5fact
    /\ post_fix[Main] = <<"5", " ", "!">>
    /\ result[Main] = Err("InvalidExpression")

\* C13: a call of compute_expression that follows a returned call of it on
\* the same, unchanged postfix text returns what that call returned and
\* leaves in result what that call left, whatever happened to the factorial
\* cache in between.
C13_ComputeTwice ==
    [][\A p \in Threads :
          (InCall(p) /\ pc'[p] = "idle" /\ call[p] = "compute_expression again")
          => (ret'[p] = ret[p] /\ result'[p] = result[p])]_vars

\* "5!" has been evaluated a second time, to 120 again, after the other
\* thread's "21!" had extended the cache and overflowed.
C13_Witness ==
    /\ call[Main] = "compute_expression again"
    /\ pc[Main] = "idle"
    /\ expr[Main] = E_5fact
    /\ ret[Main] = "Ok"
    /\ result[Main] = Ok(Z(120))
    /\ ret[Other] = "Overflow"
    /\ Len(cache) = 21

\* A step of p on a binary operator token with fewer than 2 values on the
\* stack, or on "!" with none.
ShortStackStep(p) ==
    /\ Steps(p)
    /\ pc[p] = "loop"
    /\ tokens[p] # <<>>
    /\ \/ /\ Len(Head(tokens[p])) = 1
          /\ Head(tokens[p])[1] \in BinOps
          /\ Len(stack[p]) < 2
       \/ /\ Head(tokens[p]) = <<"!">>
          /\ stack[p] = <<>>

\* C14: a binary operator token met with fewer than 2 values on the stack,
\* or "!" met with an empty stack, makes compute_expression return
\* Err(InsufficientOperands); the postfix text "+" fails this way.
C14_InsufficientOperands ==
    /\ [][\A p \in Threads :
            ShortStackStep(p)
            => /\ ret'[p] = "InsufficientOperands"
               /\ pc'[p] = "idle"
               /\ result'[p] = result[p]]_vars
    /\ [](\A p \in Threads :
            (post_fix[p] = P_plus /\ call[p] = "compute_expression"
             /\ pc[p] = "idle")
            => ret[p] = "InsufficientOperands")

\* compute_expression on the postfix text "+" has returned
\* InsufficientOperands.
C14_Witness ==
    /\ post_fix[Main] = P_plus
    /\ call[Main] = "compute_expression"
    /\ pc[Main] = "idle"
    /\ ret[Main] = "InsufficientOperands"

\* Some ")" of e is scanned with no "(" on the operator stack.
HasUnmatchedClose(e) ==
    \E k \in 1..Len(e) : e[k] = ")" /\ OpenParens(e, k - 1) = 0

\* C15: when infix_to_postfix scans a ")" and the operator stack holds no
\* "(", the conversion fails with MalformedExpression.
C15_UnmatchedCloseFails ==
    [][\A p \in Threads :
          (ConvertStep(p) /\ AllSupported(expr[p]) /\ HasUnmatchedClose(expr[p]))
          => ret'[p] = "MalformedExpression"]_vars

\* The maximal runs of consecutive digits of e[k..], in order; cur is the
\* run being read.
RECURSIVE DigitRunsFrom(_, _, _)
DigitRunsFrom(e, k, cur) ==
    IF k > Len(e) THEN (IF cur = <<>> THEN <<>> ELSE <<cur>>)
    ELSE IF IsDigit(e[k]) THEN DigitRunsFrom(e, k + 1, Append(cur, e[k]))
    ELSE IF cur = <<>> THEN DigitRunsFrom(e, k + 1, <<>>)
    ELSE <<cur>> \o DigitRunsFrom(e, k + 1, <<>>)

DigitRuns(e) == DigitRunsFrom(e, 1, <<>>)

IsNumberToken(token) == \A k \in 1..Len(token) : IsDigit(token[k])

\* The number tokens of a postfix text, in order.
NumberTokens(text) == SelectSeq(split_whitespace(text), IsNumberToken)

\* C16: after a successful conversion the number tokens of the postfix text
\* are exactly the maximal runs of consecutive digits of the expression, in
\* order: digits separated by a space, an operator, "!", "(" or ")" are not
\* merged into one number.
C16_DigitRunsAreTokens ==
    \A p \in Threads :
        (pc[p] = "idle" /\ call[p] = "infix_to_postfix" /\ ret[p] = "Ok")
        => NumberTokens(post_fix[p]) = DigitRuns(expr[p])

\* A step of p that applies "!" to a negative value.
NegativeFactorialStep(p) ==
    /\ Steps(p)
    /\ pc[p] = "loop"
    /\ tokens[p] # <<>>
    /\ Head(tokens[p]) = <<"!">>
    /\ stack[p] # <<>>
    /\ stack[p][Len(stack[p])].neg

\* p is in factorial(n) with n the cast of a negative value: 2^63 or more.
InNegativeFactorial(p) ==
    /\ pc[p] \in {"lock", "extend", "get"}
    /\ MagCmp(n[p], I64MinMag) >= 0

\* C17: "!" applied to a negative value enters factorial with an n of 2^63
\* or more; that call never reaches the return of a cache entry, its loop
\* only counts up, to 21 at most, with the cache holding k! at every index k
\* throughout; it ends with Err(Overflow) returned by compute_expression, the
\* lock free, the cache at 0! to 20! and result as it was.
C17_NegativeFactorial ==
    /\ [][\A p \in Threads :
            /\ NegativeFactorialStep(p)
               => /\ pc'[p] = "lock"
                  /\ MagCmp(n'[p], I64MinMag) >= 0
            /\ (InNegativeFactorial(p) /\ Steps(p) /\ pc[p] = "extend")
               => \/ /\ pc'[p] = "extend"
                     /\ i'[p] = i[p] + 1
                     /\ stack'[p] = stack[p]
                  \/ /\ pc'[p] = "idle"
                     /\ ret'[p] = "Overflow"
                     /\ result'[p] = result[p]
                     /\ lock' = 0
                     /\ Len(cache') = 21]_vars
    /\ [](\A p \in Threads :
            InNegativeFactorial(p)
            => /\ pc[p] # "get"
               /\ i[p] <= 21
               /\ CacheValid)

\* "(1-2)!" has failed with Overflow, the cache extended to 20!.
C17_Witness ==
    /\ Evaluated(Main)
    /\ expr[Main] = E_neg_fact
    /\ ret[Main] = "Overflow"
    /\ Len(cache) = 21
    /\ CacheValid

FinalCheckStep(p) ==
    /\ Steps(p)
    /\ pc[p] = "loop"
    /\ tokens[p] = <<>>

\* C19: once all tokens are consumed, compute_expression returns Ok(()) with
\* result = Ok(v) exactly when the value stack holds the one value v; with
\* any other stack size it returns Err(MalformedExpression), as it does on
\* the empty postfix text and on "3 4".
C19_FinalStackCheck ==
    /\ [][\A p \in Threads :
            FinalCheckStep(p)
            => /\ pc'[p] = "idle"
               /\ IF Len(stack[p]) = 1
                  THEN ret'[p] = "Ok" /\ result'[p] = Ok(stack[p][1])
                  ELSE /\ ret'[p] = "MalformedExpression"
                       /\ result'[p] = result[p]]_vars
    /\ [](\A p \in Threads :
            (call[p] = "compute_expression" /\ pc[p] = "idle"
             /\ post_fix[p] \in {<<>>, P_two_values})
            => ret[p] = "MalformedExpression")

\* compute_expression on the postfix text "3 4" has returned
\* MalformedExpression.
C19_Witness ==
    /\ call[Main] = "compute_expression"
    /\ pc[Main] = "idle"
    /\ post_fix[Main] = P_two_values
    /\ ret[Main] = "MalformedExpression"

\* p is between FACTORIAL_CACHE.lock() and the return of factorial.
InFactorial(p) == pc[p] \in {"extend", "get"}

\* C20: the cache lock is held by p exactly while p is inside one factorial
\* lookup-or-extend, so by one evaluation at a time and by none that has
\* returned, with Overflow or otherwise; it is taken only when free; a
\* thread waiting for it gets it in the end, and every evaluation that
\* started returns Ok or an error.
C20_LockDiscipline ==
    /\ [](\A p \in Threads :
            /\ InFactorial(p) <=> lock = p
            /\ \A q \in Threads : (InFactorial(p) /\ InFactorial(q)) => p = q)
    /\ [](lock \in Threads \cup {0})
    /\ [][lock' \notin {lock, 0} => lock = 0]_vars
    /\ \A p \in LiveThreads :
          /\ (pc[p] = "lock") ~> (lock = p)
          /\ (pc[p] # "idle")
                ~> (pc[p] = "idle" /\ ret[p] \in ErrorKind \cup {"Ok"})

\* One evaluation has returned Overflow, with the lock released, and the
\* other has since taken the lock for a lookup.
C20_Witness ==
    \E p \in Threads, q \in Threads :
        /\ p # q
        /\ pc[q] = "idle"
        /\ ret[q] = "Overflow"
        /\ lock = p
        /\ pc[p] = "get"

=============================================================================
